---- MODULE Spec2Model ----
(***************************************************************************)
(* Model of the Perceptron repository:                                     *)
(*   - DualNumber (src/Dual.js): reverse-mode automatic differentiation    *)
(*     over a dynamically built graph, with a stack-based backprop();      *)
(*   - Matrix (src/unnamed/part_001): dense row-major matrix with          *)
(*     determinant() and inverse() by LU decomposition with partial        *)
(*     pivoting, and its two-level index;                                  *)
(*   - Perceptron (src/Perceptron.js): forward(), backward() and update()  *)
(*     of the single neuron with three weights.                            *)
(* Numbers are exact: a JavaScript double is modelled as a pair <<p, q>>   *)
(* standing for p/q, with the non-finite values of IEEE-754 as <<1, 0>>    *)
(* (Infinity), <<-1, 0>> (-Infinity) and <<0, 0>> (NaN).  Rounding and the *)
(* sign of zero are not modelled.                                          *)
(***************************************************************************)
EXTENDS Integers, Sequences, FiniteSets, TLC

VARIABLES
    nodes,      \* Dual.js: the DualNumber objects created so far, by identity
    pc,         \* Dual.js: "idle", or "loop" while backprop() is in its while loop
    root,       \* Dual.js: `this` of the running (or last) backprop(); 0 if none
    stack,      \* Dual.js:106 the traversal stack of backprop()
    visited,    \* Dual.js:107 the visited set of backprop()
    calls,      \* the nodes whose backward closure the running (or last) backprop() invoked, in order
    passes,     \* number of backprop() calls started so far
    last,       \* the last call: what was called, on what, and what it returned or threw
    bufs,       \* part_001: the arrays and Float64Arrays alive, by identity
    mats,       \* part_001: the Matrix objects created so far: [m, n, data], data a buffer of bufs
    arrays,     \* the buffers of bufs that are the caller's own arrays
    made,       \* for each Matrix of mats, the call that returned it
    writes,     \* number of indexed writes done so far
    props,      \* part_001: the own properties that assignments added to Matrix objects
    perceptron, \* Perceptron.js:127-130 inputs, outputs, weights and gradients of the Perceptron
    trained     \* the forward and backward calls since the last update(), as the caller made them

dualVars == <<nodes, pc, root, stack, visited, calls, passes>>
matrixVars == <<bufs, mats, arrays, made, writes, props>>
perceptronVars == <<perceptron, trained>>
vars == <<nodes, pc, root, stack, visited, calls, passes, last, bufs, mats, arrays, made, writes,
          props, perceptron, trained>>

----------------------------------------------------------------------------
(* Bounds of the model *)

MaxNodes == 4
MaxBackprops == 2
MaxEntry == 1

LeafReals == {3, 4}
LeafDuals == {0}
RawNumbers == {2}
Ops == {"add", "sub", "mul", "div"}

----------------------------------------------------------------------------
(* Numbers: p/q with q >= 0 in lowest terms; q = 0 for Infinity, -Infinity, NaN *)

Abs(x) == IF x < 0 THEN -x ELSE x

Sign(x) == IF x < 0 THEN -1 ELSE IF x > 0 THEN 1 ELSE 0

\* Gcd and Norm are functions, not operators, so that TLC evaluates their
\* arguments once, before the application.
Gcd[a \in Nat, b \in Nat] == IF b = 0 THEN a ELSE Gcd[b, a % b]

Norm[p \in Int, q \in Int] ==
    IF q = 0 THEN <<Sign(p), 0>>
    ELSE LET g == Gcd[Abs(p), Abs(q)]
             s == IF q < 0 THEN -1 ELSE 1
         IN  <<s * (Abs(p) \div g) * Sign(p), Abs(q) \div g>>

Num(i) == <<i, 1>>
Zero == Num(0)
One == Num(1)
NaN == <<0, 0>>

IsFinite(a) == a[2] > 0

\* Sum, Product and Quotient are functions for the same reason.
Pairs == Int \X Int

\* over the least common denominator
Sum[a \in Pairs, b \in Pairs] ==
    IF a[2] = 0 /\ b[2] = 0 THEN (IF a = b THEN a ELSE NaN)
    ELSE IF a[2] = 0 THEN a
    ELSE IF b[2] = 0 THEN b
    ELSE LET g == Gcd[a[2], b[2]]
         IN  Norm[a[1] * (b[2] \div g) + b[1] * (a[2] \div g), (a[2] \div g) * b[2]]

\* common factors removed before the products are taken
Product[a \in Pairs, b \in Pairs] ==
    IF a[2] = 0 \/ b[2] = 0 THEN <<Sign(a[1]) * Sign(b[1]), 0>>
    ELSE LET g1 == Gcd[Abs(a[1]), b[2]]
             g2 == Gcd[Abs(b[1]), a[2]]
         IN  <<(a[1] \div g1) * (b[1] \div g2), (a[2] \div g2) * (b[2] \div g1)>>

Quotient[a \in Pairs, b \in Pairs] ==
    IF a[2] = 0 \/ b[2] = 0 \/ b[1] = 0
    THEN Norm[(IF b[1] < 0 THEN -1 ELSE 1) * a[1] * b[2], a[2] * Abs(b[1])]
    ELSE Product[a, <<(IF b[1] < 0 THEN -1 ELSE 1) * b[2], Abs(b[1])>>]

\* a + b
NAdd(a, b) == Sum[a, b]

\* -a
NNeg(a) == <<-a[1], a[2]>>

\* a - b
NSub(a, b) == Sum[a, NNeg(b)]

\* a * b
NMul(a, b) == Product[a, b]

\* a / b
NDiv(a, b) == Quotient[a, b]

\* Math.abs(a)
NAbs(a) == <<Abs(a[1]), a[2]>>

\* a < b, for finite a and b
NLess(a, b) == a[1] * b[2] < b[1] * a[2]

----------------------------------------------------------------------------
(* DualNumber: src/Dual.js *)

\* new DualNumber(real, dual): grad 0, no parents, no backward closure.
\* The field op stands for the closure stored in `backward`: "leaf" is its absence.
DualNumber(real, dual) ==
    [real |-> real, dual |-> dual, grad |-> Zero, parents |-> <<>>, op |-> "leaf"]

\* the forward value of x <kind> o, o already a DualNumber
ForwardReal(kind, x, o) ==
    CASE kind = "add" -> NAdd(x.real, o.real)
      [] kind = "sub" -> NSub(x.real, o.real)
      [] kind = "mul" -> NMul(x.real, o.real)
      [] kind = "div" -> NDiv(x.real, o.real)

ForwardDual(kind, x, o) ==
    CASE kind = "add" -> NAdd(x.dual, o.dual)
      [] kind = "sub" -> NSub(x.dual, o.dual)
      [] kind = "mul" -> NAdd(NMul(x.real, o.dual), NMul(x.dual, o.real))
      [] kind = "div" -> NDiv(NSub(NMul(x.dual, o.real), NMul(x.real, o.dual)),
                              NMul(o.real, o.real))

\* x.add(o), x.sub(o), x.mul(o), x.div(o) on the object table ns: x is a node
\* id; arg is a node id (isDual) or a raw number, which is first wrapped in a
\* new DualNumber(arg, 0).  Returns the table with the new object(s) appended;
\* the result of the call is the last one.
Arith(ns, kind, x, arg) ==
    LET ns1 == IF arg.isDual THEN ns ELSE Append(ns, DualNumber(Num(arg.val), Zero))
        o   == IF arg.isDual THEN arg.id ELSE Len(ns1)
        res == [real    |-> ForwardReal(kind, ns1[x], ns1[o]),
                dual    |-> ForwardDual(kind, ns1[x], ns1[o]),
                grad    |-> Zero,
                parents |-> <<x, o>>,
                op      |-> kind]
    IN  Append(ns1, res)

\* grad of node i += v
AddGrad(ns, i, v) == [ns EXCEPT ![i].grad = NAdd(@, v)]

\* mutant: the closure of mul gives each operand its own value as partial
backwardOwnValue(ns, c) ==
    LET x == ns[c].parents[1]
        o == ns[c].parents[2]
    IN  CASE ns[c].op = "add" ->
               AddGrad(AddGrad(ns, x, ns[c].grad), o, ns[c].grad)
          [] ns[c].op = "sub" ->
               AddGrad(AddGrad(ns, x, ns[c].grad), o, NNeg(ns[c].grad))
          [] ns[c].op = "mul" ->
               AddGrad(AddGrad(ns, x, NMul(ns[x].real, ns[c].grad)),
                       o, NMul(ns[o].real, ns[c].grad))
          [] ns[c].op = "div" ->
               AddGrad(AddGrad(ns, x, NMul(NDiv(One, ns[o].real), ns[c].grad)), o,
                       NMul(NDiv(NNeg(ns[x].real), NMul(ns[o].real, ns[o].real)),
                            ns[c].grad))

\* node.backward(): the closure installed by add/sub/mul/div, which captured
\* this (x), dualB (o) and the result node c.  Two statements, in order.
backward(ns, c) ==
    LET x == ns[c].parents[1]
        o == ns[c].parents[2]
    IN  CASE ns[c].op = "add" ->
               LET s1 == AddGrad(ns, x, ns[c].grad)
               IN  AddGrad(s1, o, s1[c].grad)
          [] ns[c].op = "sub" ->
               LET s1 == AddGrad(ns, x, ns[c].grad)
               IN  AddGrad(s1, o, NNeg(s1[c].grad))
          [] ns[c].op = "mul" ->
               LET s1 == AddGrad(ns, x, NMul(ns[o].real, ns[c].grad))
               IN  AddGrad(s1, o, NMul(s1[x].real, s1[c].grad))
          [] ns[c].op = "div" ->
               LET s1 == AddGrad(ns, x, NMul(NDiv(One, ns[o].real), ns[c].grad))
               IN  AddGrad(s1, o,
                       NMul(NDiv(NNeg(s1[x].real), NMul(s1[o].real, s1[o].real)),
                            s1[c].grad))

\* node.backward is set (truthy)
HasBackward(ns, c) == ns[c].op # "leaf"

\* mutant: the visited set is not consulted
ShouldInvokeUnvisitedOrNot(ns, vis, node) == HasBackward(ns, node)

\* Dual.js:110  if(node.backward && !visited.has(node))
ShouldInvoke(ns, vis, node) == HasBackward(ns, node) /\ node \notin vis

\* stack.push(...node.parents) one by one
PushAll(stk, ps) == stk \o ps

\* no DualNumber exists
NoDuals ==
    /\ nodes = <<>>
    /\ pc = "idle"
    /\ root = 0
    /\ stack = <<>>
    /\ visited = {}
    /\ calls = <<>>
    /\ passes = 0

\* no Matrix and no array exists
NoMatrices ==
    /\ bufs = <<>>
    /\ mats = <<>>
    /\ arrays = {}
    /\ made = <<>>
    /\ writes = 0
    /\ props = {}

\* no Perceptron exists
NoPerceptron ==
    /\ perceptron = <<>>
    /\ trained = <<>>

DualInit ==
    /\ NoMatrices
    /\ NoPerceptron
    /\ nodes = <<>>
    /\ pc = "idle"
    /\ root = 0
    /\ stack = <<>>
    /\ visited = {}
    /\ calls = <<>>
    /\ passes = 0
    /\ last = [call |-> "none"]

\* DualNumber(real, dual) called by the user
Construct(r, d) ==
    /\ UNCHANGED <<matrixVars, perceptronVars>>
    /\ pc = "idle"
    /\ Len(nodes) < MaxNodes
    /\ nodes' = Append(nodes, DualNumber(Num(r), Num(d)))
    /\ last' = [call |-> "new", result |-> Len(nodes) + 1]
    /\ UNCHANGED <<pc, root, stack, visited, calls, passes>>

\* x.add(o) / x.sub(o) / x.mul(o) / x.div(o)
Operate(kind, x, arg) ==
    /\ UNCHANGED <<matrixVars, perceptronVars>>
    /\ pc = "idle"
    /\ Len(nodes) + (IF arg.isDual THEN 1 ELSE 2) <= MaxNodes
    /\ nodes' = Arith(nodes, kind, x, arg)
    /\ last' = [call |-> kind, this |-> x, arg |-> arg, result |-> Len(nodes')]
    /\ UNCHANGED <<pc, root, stack, visited, calls, passes>>

\* mutant: backprop() clears every grad before it seeds the root
BackpropStartZeroing(r) ==
    /\ UNCHANGED <<matrixVars, perceptronVars>>
    /\ pc = "idle"
    /\ passes < MaxBackprops
    /\ nodes' = [i \in 1..Len(nodes) |->
                    [nodes[i] EXCEPT !.grad = IF i = r THEN One ELSE Zero]]
    /\ stack' = <<r>>
    /\ visited' = {}
    /\ calls' = <<>>
    /\ root' = r
    /\ passes' = passes + 1
    /\ pc' = "loop"
    /\ last' = [call |-> "backprop", this |-> r]

\* backprop(), lines 105-107: seed the gradient, start the traversal
BackpropStart(r) ==
    /\ UNCHANGED <<matrixVars, perceptronVars>>
    /\ pc = "idle"
    /\ passes < MaxBackprops
    /\ nodes' = [nodes EXCEPT ![r].grad = One]
    /\ stack' = <<r>>
    /\ visited' = {}
    /\ calls' = <<>>
    /\ root' = r
    /\ passes' = passes + 1
    /\ pc' = "loop"
    /\ last' = [call |-> "backprop", this |-> r]

\* backprop(), lines 108-117: one iteration of the while loop; the call
\* returns when the stack is empty
BackpropStep ==
    /\ UNCHANGED <<matrixVars, perceptronVars>>
    /\ pc = "loop"
    /\ stack # <<>>
    /\ LET node == stack[Len(stack)]
           rest == SubSeq(stack, 1, Len(stack) - 1)
       IN  IF ShouldInvoke(nodes, visited, node)
           THEN /\ nodes' = backward(nodes, node)
                /\ visited' = visited \cup {node}
                /\ calls' = Append(calls, node)
                /\ stack' = PushAll(rest, nodes[node].parents)
           ELSE /\ stack' = rest
                /\ UNCHANGED <<nodes, visited, calls>>
    /\ pc' = IF stack' = <<>> THEN "idle" ELSE "loop"
    /\ UNCHANGED <<root, passes, last>>

Operands == [isDual : {TRUE}, id : 1..Len(nodes)] \cup [isDual : {FALSE}, val : RawNumbers]

DualNext ==
    \/ \E r \in LeafReals, d \in LeafDuals : Construct(r, d)
    \/ \E kind \in Ops, x \in 1..Len(nodes), arg \in Operands : Operate(kind, x, arg)
    \/ \E r \in 1..Len(nodes) : BackpropStart(r)
    \/ BackpropStep

SpecDual == DualInit /\ [][DualNext]_vars

\* The graphs backprop() traverses, built from a single leaf value with add
\* and mul on existing nodes: the traversal reads only `backward` and
\* `parents`, which every operator sets alike.  backprop() is synchronous
\* code: once called, its loop runs to its end (weak fairness of BackpropStep).
TraverseNext ==
    \/ \E r \in {3} : Construct(r, 0)
    \/ \E kind \in {"add", "mul"}, x, o \in 1..Len(nodes) :
           Operate(kind, x, [isDual |-> TRUE, id |-> o])
    \/ \E r \in 1..Len(nodes) : BackpropStart(r)
    \/ BackpropStep

FairSpecTraverse == DualInit /\ [][TraverseNext]_vars /\ WF_vars(BackpropStep)

----------------------------------------------------------------------------
(* Matrix: src/unnamed/part_001 *)

\* 1e-10 is 1 / (EpsRoot * EpsRoot)
EpsRoot == 100000

CeilDiv(a, b) == (a + b - 1) \div b

\* Math.abs(x) < 1e-10, for finite x = p/q:  |p| * 10^10 < q
BelowEps(x) == Abs(x[1]) < CeilDiv(CeilDiv(x[2], EpsRoot), EpsRoot)

\* Number.isInteger(x)
IsInteger(x) == x[2] = 1

\* element (i, j), both counted from 0, of the row-major buffer s with n columns
At(s, n, i, j) == s[i * n + j + 1]

RowOf(p, n) == (p - 1) \div n
ColOf(p, n) == (p - 1) % n

Zeros(len) == [p \in 1..len |-> Zero]

\* new Float64Array(...), data.slice(): a new buffer on the heap h
Alloc(h, content) == [heap |-> Append(h, content), id |-> Len(h) + 1]

\* mutant: hands back the buffer it was given instead of a copy
CopyShared(h, src) == [heap |-> h, id |-> src]

\* new Float64Array(dataArray), data.slice(): a copy of the buffer src
Copy(h, src) == Alloc(h, h[src])

NoData == 0

\* mutant: the length of the data array is not checked
MatrixUnchecked(h, m, n, dataArray) ==
    IF ~IsInteger(m) \/ m[1] <= 0 \/ ~IsInteger(n) \/ n[1] <= 0
    THEN [status |-> "throw", error |-> "InvalidDimension", heap |-> h]
    ELSE LET a == IF dataArray = NoData THEN Alloc(h, Zeros(m[1] * n[1]))
                  ELSE Copy(h, dataArray)
         IN  [status |-> "ok", heap |-> a.heap,
              value |-> [m |-> m[1], n |-> n[1], data |-> a.id]]

\* Matrix(m, n, dataArray), lines 12-24: m and n are numbers, dataArray is a
\* buffer of h or NoData (undefined)
Matrix(h, m, n, dataArray) ==
    IF ~IsInteger(m) \/ m[1] <= 0 \/ ~IsInteger(n) \/ n[1] <= 0
    THEN [status |-> "throw", error |-> "InvalidDimension", heap |-> h]
    ELSE IF dataArray # NoData /\ Len(h[dataArray]) # m[1] * n[1]
    THEN [status |-> "throw", error |-> "DataLengthMismatch", heap |-> h]
    ELSE LET a == IF dataArray = NoData THEN Alloc(h, Zeros(m[1] * n[1]))
                  ELSE Copy(h, dataArray)
         IN  [status |-> "ok", heap |-> a.heap,
              value |-> [m |-> m[1], n |-> n[1], data |-> a.id]]

\* lines 64-72: the row, from k down, holding the first entry of column k of
\* greatest magnitude
RECURSIVE PivotScan(_, _, _, _, _)
PivotScan(lu, n, k, i, maxRow) ==
    IF i >= n THEN maxRow
    ELSE IF NLess(NAbs(At(lu, n, maxRow, k)), NAbs(At(lu, n, i, k)))
         THEN PivotScan(lu, n, k, i + 1, i)
         ELSE PivotScan(lu, n, k, i + 1, maxRow)

PivotRow(lu, n, k) == PivotScan(lu, n, k, k + 1, k)

\* lines 76-80: rows a and b exchanged
SwapRows(lu, n, a, b) ==
    [p \in 1..Len(lu) |->
        IF RowOf(p, n) = a THEN At(lu, n, b, ColOf(p, n))
        ELSE IF RowOf(p, n) = b THEN At(lu, n, a, ColOf(p, n))
        ELSE lu[p]]

\* lines 90-96: column k eliminated below the diagonal, the multipliers stored
\* in its place (row k itself is not written)
Eliminate(lu, n, k) ==
    [p \in 1..Len(lu) |->
        IF RowOf(p, n) > k /\ ColOf(p, n) >= k
        THEN LET factor == NDiv(At(lu, n, RowOf(p, n), k), At(lu, n, k, k))
             IN  IF ColOf(p, n) = k THEN factor
                 ELSE NSub(lu[p], NMul(factor, At(lu, n, k, ColOf(p, n))))
        ELSE lu[p]]

\* lines 100-103: sign times the product of the diagonal
RECURSIVE DiagProduct(_, _, _, _)
DiagProduct(lu, n, i, det) ==
    IF i >= n THEN det ELSE DiagProduct(lu, n, i + 1, NMul(det, At(lu, n, i, i)))

\* mutant: the product of the diagonal is returned without the sign of the swaps
RECURSIVE DetLUNoSign(_, _, _, _)
DetLUNoSign(lu, n, k, swaps) ==
    IF k >= n - 1
    THEN [value |-> DiagProduct(lu, n, 0, One), lu |-> lu, swaps |-> swaps, small |-> FALSE]
    ELSE LET maxRow == PivotRow(lu, n, k)
             lu1    == IF maxRow # k THEN SwapRows(lu, n, k, maxRow) ELSE lu
             swaps1 == IF maxRow # k THEN swaps + 1 ELSE swaps
         IN  IF BelowEps(At(lu1, n, k, k))
             THEN [value |-> Zero, lu |-> lu1, swaps |-> swaps1, small |-> TRUE]
             ELSE DetLUNoSign(Eliminate(lu1, n, k), n, k + 1, swaps1)

\* determinant(), lines 62-105, from column k on: the value returned, the
\* buffer lu as left, the swaps counted, and whether a pivot was below 1e-10
RECURSIVE DetLU(_, _, _, _)
DetLU(lu, n, k, swaps) ==
    IF k >= n - 1
    THEN [value |-> DiagProduct(lu, n, 0, IF swaps % 2 = 0 THEN One ELSE Num(-1)),
          lu |-> lu, swaps |-> swaps, small |-> FALSE]
    ELSE LET maxRow == PivotRow(lu, n, k)
             lu1    == IF maxRow # k THEN SwapRows(lu, n, k, maxRow) ELSE lu
             swaps1 == IF maxRow # k THEN swaps + 1 ELSE swaps
         IN  IF BelowEps(At(lu1, n, k, k))
             THEN [value |-> Zero, lu |-> lu1, swaps |-> swaps1, small |-> TRUE]
             ELSE DetLU(Eliminate(lu1, n, k), n, k + 1, swaps1)

\* this.determinant(), lines 45-106
determinant(h, this) ==
    IF this.m # this.n THEN [status |-> "throw", error |-> "NotSquare", heap |-> h]
    ELSE IF this.m = 1 THEN [status |-> "ok", value |-> h[this.data][1], heap |-> h]
    ELSE IF this.m = 2
    THEN [status |-> "ok", heap |-> h,
          value |-> NSub(NMul(h[this.data][1], h[this.data][4]),
                         NMul(h[this.data][2], h[this.data][3]))]
    ELSE LET lu == Copy(h, this.data)
             r  == DetLU(lu.heap[lu.id], this.n, 0, 0)
         IN  [status |-> "ok", value |-> r.value, heap |-> [lu.heap EXCEPT ![lu.id] = r.lu]]

\* perm with entries a and b (from 0) exchanged
SwapPerm(perm, a, b) ==
    [p \in 1..Len(perm) |->
        IF p = a + 1 THEN perm[b + 1] ELSE IF p = b + 1 THEN perm[a + 1] ELSE perm[p]]

\* inverse(), lines 145-182, from column k on: the buffer lu and the
\* permutation as left, and whether a pivot was below 1e-10
RECURSIVE InvLU(_, _, _, _)
InvLU(lu, n, k, perm) ==
    IF k >= n - 1 THEN [lu |-> lu, perm |-> perm, small |-> FALSE]
    ELSE LET maxRow == PivotRow(lu, n, k)
             lu1    == IF maxRow # k THEN SwapRows(lu, n, k, maxRow) ELSE lu
             perm1  == IF maxRow # k THEN SwapPerm(perm, k, maxRow) ELSE perm
         IN  IF BelowEps(At(lu1, n, k, k))
             THEN [lu |-> lu1, perm |-> perm1, small |-> TRUE]
             ELSE InvLU(Eliminate(lu1, n, k), n, k + 1, perm1)

\* lines 194-195: b = new Float64Array(n); b[perm[col]] = 1 (col from 0)
RightHandSide(n, perm, col) == [p \in 1..n |-> IF p = perm[col + 1] + 1 THEN One ELSE Zero]

\* sum -= lu[i][j] * v[j] for j = from .. to; v[j] is vs[j - off + 1]
RECURSIVE SubDot(_, _, _, _, _, _, _, _)
SubDot(sum, lu, n, i, vs, off, j, to) ==
    IF j > to THEN sum
    ELSE SubDot(NSub(sum, NMul(At(lu, n, i, j), vs[j - off + 1])), lu, n, i, vs, off, j + 1, to)

\* lines 198-205: y[0..n-1], given y[0..Len(y)-1]
RECURSIVE Forward(_, _, _, _)
Forward(lu, n, b, y) ==
    IF Len(y) = n THEN y
    ELSE LET i == Len(y)
         IN  Forward(lu, n, b, Append(y, SubDot(b[i + 1], lu, n, i, y, 0, 0, i - 1)))

\* lines 208-215: x[0..n-1], given xs = x[n-Len(xs)..n-1]
RECURSIVE Backward(_, _, _, _)
Backward(lu, n, y, xs) ==
    IF Len(xs) = n THEN xs
    ELSE LET i   == n - Len(xs) - 1
             sum == SubDot(y[i + 1], lu, n, i, xs, i + 1, i + 1, n - 1)
         IN  Backward(lu, n, y, <<NDiv(sum, At(lu, n, i, i))>> \o xs)

\* lines 192-221: column col of the inverse
SolveColumn(lu, n, perm, col) ==
    Backward(lu, n, Forward(lu, n, RightHandSide(n, perm, col), <<>>), <<>>)

\* lines 190, 218-220: invData[row * n + col] = x[row]
InvData(lu, n, perm) ==
    LET x == [col \in 0..(n - 1) |-> SolveColumn(lu, n, perm, col)]
    IN  [p \in 1..(n * n) |-> x[ColOf(p, n)][RowOf(p, n) + 1]]

Singular(h) == [status |-> "throw", error |-> "SingularMatrix", heap |-> h]

\* mutant: the last diagonal entry of the LU buffer is not tested
inverseNoFinalCheck(h, this) ==
    IF this.m # this.n THEN [status |-> "throw", error |-> "NotSquare", heap |-> h]
    ELSE IF this.m = 1
    THEN IF BelowEps(h[this.data][1]) THEN Singular(h)
         ELSE LET a == Alloc(h, <<NDiv(One, h[this.data][1])>>)
              IN  Matrix(a.heap, Num(1), Num(1), a.id)
    ELSE IF this.m = 2
    THEN LET d   == h[this.data]
             det == NSub(NMul(d[1], d[4]), NMul(d[2], d[3]))
         IN  IF BelowEps(det) THEN Singular(h)
             ELSE LET a == Alloc(h, <<NDiv(d[4], det), NDiv(NNeg(d[2]), det),
                                      NDiv(NNeg(d[3]), det), NDiv(d[1], det)>>)
                  IN  Matrix(a.heap, Num(2), Num(2), a.id)
    ELSE LET n    == this.n
             lu   == Copy(h, this.data)
             r    == InvLU(lu.heap[lu.id], n, 0, [p \in 1..n |-> p - 1])
             h1   == [lu.heap EXCEPT ![lu.id] = r.lu]
         IN  IF r.small THEN Singular(h1)
             ELSE LET a == Alloc(h1, InvData(r.lu, n, r.perm))
                  IN  Matrix(a.heap, Num(n), Num(n), a.id)

\* this.inverse(), lines 112-224
inverse(h, this) ==
    IF this.m # this.n THEN [status |-> "throw", error |-> "NotSquare", heap |-> h]
    ELSE IF this.m = 1
    THEN IF BelowEps(h[this.data][1]) THEN Singular(h)
         ELSE LET a == Alloc(h, <<NDiv(One, h[this.data][1])>>)
              IN  Matrix(a.heap, Num(1), Num(1), a.id)
    ELSE IF this.m = 2
    THEN LET d   == h[this.data]
             det == NSub(NMul(d[1], d[4]), NMul(d[2], d[3]))
         IN  IF BelowEps(det) THEN Singular(h)
             ELSE LET a == Alloc(h, <<NDiv(d[4], det), NDiv(NNeg(d[2]), det),
                                      NDiv(NNeg(d[3]), det), NDiv(d[1], det)>>)
                  IN  Matrix(a.heap, Num(2), Num(2), a.id)
    ELSE LET n    == this.n
             lu   == Copy(h, this.data)
             r    == InvLU(lu.heap[lu.id], n, 0, [p \in 1..n |-> p - 1])
             h1   == [lu.heap EXCEPT ![lu.id] = r.lu]
         IN  IF r.small \/ BelowEps(At(r.lu, n, n - 1, n - 1)) THEN Singular(h1)
             ELSE LET a == Alloc(h1, InvData(r.lu, n, r.perm))
                  IN  Matrix(a.heap, Num(n), Num(n), a.id)

\* mutant: the term of k = 0 is left out of the sum
RECURSIVE DotSkipFirst(_, _, _, _, _, _, _, _)
DotSkipFirst(sum, a, n, i, b, newCols, j, k) ==
    IF k >= n THEN sum
    ELSE DotSkipFirst(IF k = 0 THEN sum
                      ELSE NAdd(sum, NMul(At(a, n, i, k), At(b, newCols, k, j))),
                      a, n, i, b, newCols, j, k + 1)

\* lines 236-240: sum of data[i][k] * B.data[k][j] for k = from .. n-1
RECURSIVE Dot(_, _, _, _, _, _, _, _)
Dot(sum, a, n, i, b, newCols, j, k) ==
    IF k >= n THEN sum
    ELSE Dot(NAdd(sum, NMul(At(a, n, i, k), At(b, newCols, k, j))), a, n, i, b, newCols, j, k + 1)

DimensionMismatch(h) == [status |-> "throw", error |-> "DimensionMismatch", heap |-> h]

\* this.multiply(matrixB), lines 227-245
multiply(h, this, matrixB) ==
    IF this.n # matrixB.m THEN DimensionMismatch(h)
    ELSE LET newCols == matrixB.n
             a == Alloc(h, [p \in 1..(this.m * newCols) |->
                       Dot(Zero, h[this.data], this.n, RowOf(p, newCols),
                           h[matrixB.data], newCols, ColOf(p, newCols), 0)])
         IN  Matrix(a.heap, Num(this.m), Num(newCols), a.id)

\* mutant: the elements of matrixB are subtracted
addSubtracting(h, this, matrixB) ==
    IF matrixB.m # this.m \/ matrixB.n # this.n THEN DimensionMismatch(h)
    ELSE LET newArray == Copy(h, this.data)
             h1 == [newArray.heap EXCEPT ![newArray.id] =
                       [p \in 1..Len(@) |-> NSub(@[p], newArray.heap[matrixB.data][p])]]
         IN  Matrix(h1, Num(this.m), Num(this.n), newArray.id)

\* this.add(matrixB), lines 28-39
add(h, this, matrixB) ==
    IF matrixB.m # this.m \/ matrixB.n # this.n THEN DimensionMismatch(h)
    ELSE LET newArray == Copy(h, this.data)
             h1 == [newArray.heap EXCEPT ![newArray.id] =
                       [p \in 1..Len(@) |-> NAdd(@[p], newArray.heap[matrixB.data][p])]]
         IN  Matrix(h1, Num(this.m), Num(this.n), newArray.id)

\* this.scalar(scalar), lines 248-254
scalar(h, this, k) ==
    LET scaled == Copy(h, this.data)
        h1 == [scaled.heap EXCEPT ![scaled.id] = [p \in 1..Len(@) |-> NMul(@[p], k)]]
    IN  Matrix(h1, Num(this.m), Num(this.n), scaled.id)

\* mutant: the dimensions are exchanged and the elements left in place
transposeInPlace(h, this) ==
    LET a == Copy(h, this.data)
    IN  Matrix(a.heap, Num(this.n), Num(this.m), a.id)

\* this.transpose(), lines 257-266: transposedArray[j * m + i] = data[i * n + j]
transpose(h, this) ==
    LET a == Alloc(h, [p \in 1..(this.n * this.m) |->
                 At(h[this.data], this.n, ColOf(p, this.m), RowOf(p, this.m))])
    IN  Matrix(a.heap, Num(this.n), Num(this.m), a.id)

\* Matrix.identity(size), lines 309-315
identity(h, size) ==
    LET a == Alloc(h, [p \in 1..(size * size) |->
                 IF RowOf(p, size) = ColOf(p, size) THEN One ELSE Zero])
    IN  Matrix(a.heap, Num(size), Num(size), a.id)

\* lines 273, 283, 297: !Number.isNaN(i) && i >= 0 && i < size
IndexValid(i, size) == IsFinite(i) /\ i[1] >= 0 /\ NLess(i, Num(size))

\* matrix[row][col] = value, lines 271-291: the outer get trap hands out the
\* row proxy only for a valid row (otherwise the property of the target, which
\* is undefined, and the assignment to its member throws); the set trap of the
\* row proxy stores into data[row * n + col] for a valid col.  A store into a
\* Float64Array at an index that is not an integer of 0..length-1 does nothing.
IndexedWrite(h, this, row, col, value) ==
    IF ~IndexValid(row, this.m) THEN [status |-> "throw", error |-> "TypeError", heap |-> h]
    ELSE IF ~IndexValid(col, this.n) THEN [status |-> "rejected", heap |-> h]
    ELSE LET idx == NAdd(NMul(row, Num(this.n)), col)
         IN  [status |-> "ok",
              heap |-> IF IsInteger(idx) /\ idx[1] < Len(h[this.data])
                       THEN [h EXCEPT ![this.data][idx[1] + 1] = value]
                       ELSE h]

\* matrix[row] = value, lines 295-301: the outer set trap throws for a valid
\* row and otherwise lets Reflect.set store value as an own property of the
\* Matrix object (own: the properties stored so far, id: the Matrix); the
\* buffer is never touched.  The names are numbers: the property Number() of
\* whose name is row.
RowAssign(own, id, this, row, value) ==
    IF IndexValid(row, this.m) THEN [status |-> "throw", error |-> "Error", props |-> own]
    ELSE [status |-> "ok",
          props |-> {x \in own : ~(x.matrix = id /\ x.name = row)}
                        \cup {[matrix |-> id, name |-> row, value |-> value]}]

----------------------------------------------------------------------------
(* Calls on matrices and what they leave behind *)

\* the buffers that existed before a call, as the call left them
Kept(o) == SubSeq(o.heap, 1, Len(bufs))

\* a call that returns a Matrix, or throws: the buffers a returning call
\* allocated and dropped are gone, the returned Matrix and its buffer stay
ReturnsMatrix(o, call) ==
    IF o.status = "ok"
    THEN /\ bufs' = IF o.value.data > Len(bufs)
                    THEN Append(Kept(o), o.heap[o.value.data]) ELSE Kept(o)
         /\ mats' = Append(mats, [o.value EXCEPT !.data =
                                     IF @ > Len(bufs) THEN Len(bufs) + 1 ELSE @])
         /\ made' = Append(made, call)
         /\ last' = call @@ [status |-> "ok", result |-> Len(mats) + 1]
    ELSE /\ bufs' = Kept(o)
         /\ UNCHANGED <<mats, made>>
         /\ last' = call @@ [status |-> "throw", error |-> o.error]

\* A.determinant()
Determinant(a) ==
    /\ UNCHANGED <<dualVars, perceptronVars, props>>
    /\ \E o \in {determinant(bufs, mats[a])} :
           /\ bufs' = Kept(o)
           /\ last' = IF o.status = "ok"
                      THEN [call |-> "determinant", this |-> a,
                            status |-> "ok", value |-> o.value]
                      ELSE [call |-> "determinant", this |-> a,
                            status |-> "throw", error |-> o.error]
    /\ UNCHANGED <<mats, arrays, made, writes>>

\* A.inverse()
Inverse(a) ==
    /\ UNCHANGED <<dualVars, perceptronVars, props>>
    /\ \E o \in {inverse(bufs, mats[a])} :
           ReturnsMatrix(o, [call |-> "inverse", this |-> a])
    /\ UNCHANGED <<arrays, writes>>

\* A.multiply(B)
Multiply(a, b) ==
    /\ UNCHANGED <<dualVars, perceptronVars, props>>
    /\ \E o \in {multiply(bufs, mats[a], mats[b])} :
           ReturnsMatrix(o, [call |-> "multiply", this |-> a, arg |-> b])
    /\ UNCHANGED <<arrays, writes>>

\* A.add(B)
Add(a, b) ==
    /\ UNCHANGED <<dualVars, perceptronVars, props>>
    /\ \E o \in {add(bufs, mats[a], mats[b])} :
           ReturnsMatrix(o, [call |-> "add", this |-> a, arg |-> b])
    /\ UNCHANGED <<arrays, writes>>

\* A.scalar(k)
Scalar(a, k) ==
    /\ UNCHANGED <<dualVars, perceptronVars, props>>
    /\ \E o \in {scalar(bufs, mats[a], k)} :
           ReturnsMatrix(o, [call |-> "scalar", this |-> a, arg |-> k])
    /\ UNCHANGED <<arrays, writes>>

\* A.transpose()
Transpose(a) ==
    /\ UNCHANGED <<dualVars, perceptronVars, props>>
    /\ \E o \in {transpose(bufs, mats[a])} :
           ReturnsMatrix(o, [call |-> "transpose", this |-> a])
    /\ UNCHANGED <<arrays, writes>>

\* Matrix.identity(size)
Identity(size) ==
    /\ UNCHANGED <<dualVars, perceptronVars, props>>
    /\ \E o \in {identity(bufs, size)} :
           ReturnsMatrix(o, [call |-> "identity", size |-> size])
    /\ UNCHANGED <<arrays, writes>>

\* Matrix(m, n, dataArray) called by the user: dataArray is NoData, one of the
\* caller's arrays or the data property of a Matrix
NewMatrix(m, n, dataArray) ==
    /\ UNCHANGED <<dualVars, perceptronVars, props>>
    /\ \E o \in {Matrix(bufs, m, n, dataArray)} :
           ReturnsMatrix(o, [call |-> "Matrix", m |-> m, n |-> n, data |-> dataArray])
    /\ UNCHANGED <<arrays, writes>>

\* the caller stores into an array of its own: array[i] = value
ArrayWrite(b, i, value) ==
    /\ UNCHANGED <<dualVars, perceptronVars, props>>
    /\ b \in arrays /\ i < Len(bufs[b])
    /\ bufs' = [bufs EXCEPT ![b][i + 1] = value]
    /\ writes' = writes + 1
    /\ last' = [call |-> "store", array |-> b, index |-> i, value |-> value]
    /\ UNCHANGED <<mats, arrays, made>>

\* A[row][col] = value
IndexSet(a, row, col, value) ==
    /\ UNCHANGED <<dualVars, perceptronVars, props>>
    /\ \E o \in {IndexedWrite(bufs, mats[a], row, col, value)} :
           /\ bufs' = o.heap
           /\ last' = [call |-> "set", this |-> a, row |-> row, col |-> col,
                       value |-> value, status |-> o.status]
    /\ writes' = writes + 1
    /\ UNCHANGED <<mats, arrays, made>>

\* A[row] = value
RowSet(a, row, value) ==
    /\ UNCHANGED <<dualVars, perceptronVars>>
    /\ \E o \in {RowAssign(props, a, mats[a], row, value)} :
           /\ props' = o.props
           /\ last' = [call |-> "assign", this |-> a, row |-> row,
                       value |-> value, status |-> o.status]
    /\ writes' = writes + 1
    /\ UNCHANGED <<bufs, mats, arrays, made>>

\* the contents of Matrix i
DataOf(i) == bufs[mats[i].data]

----------------------------------------------------------------------------
(* determinant() and inverse() on every small square matrix *)

\* every matrix of size 1, 2 and 3 with entries in -MaxEntry..MaxEntry
SmallInputs ==
    UNION {{[n |-> n, d |-> d] : d \in [1..(n * n) -> {Num(e) : e \in (-MaxEntry)..MaxEntry}]}
           : n \in {1, 2, 3}}

\* rows of length 4 holding a single 1, or two adjacent 1s
Rows4 ==
    {r \in [1..4 -> {Zero, One}] :
        \E i \in 1..4 : \E w \in {0, 1} :
            i + w <= 4 /\ \A j \in 1..4 : (r[j] = One) <=> (j \in i..(i + w))}

\* matrices of size 4 made of such rows: among them every permutation matrix
Inputs4 == {[n |-> 4, d |-> r[1] \o r[2] \o r[3] \o r[4]] : r \in [1..4 -> Rows4]}

\* the matrices of the repository's tests (server.spec.js lines 65, 68, 74, 85, 107)
TestInputs ==
    {[n |-> 2, d |-> <<Num(1), Num(2), Num(3), Num(4)>>],
     [n |-> 3, d |-> <<Num(6), Num(1), Num(1), Num(4), Num(-2), Num(5), Num(2), Num(8), Num(7)>>],
     [n |-> 2, d |-> <<Num(4), Num(7), Num(2), Num(6)>>],
     [n |-> 3, d |-> <<Num(3), Num(0), Num(2), Num(2), Num(0), Num(-2), Num(0), Num(1), Num(1)>>],
     [n |-> 2, d |-> <<Num(1), Num(2), Num(2), Num(4)>>]}

SquareInputs == SmallInputs \cup Inputs4 \cup TestInputs

\* the caller's array d and A = Matrix(n, n, d)
LUInit ==
    /\ NoDuals
    /\ NoPerceptron
    /\ props = {}
    /\ writes = 0
    /\ \E in \in SquareInputs :
         LET n == in.n
             d == in.d
             o == Matrix(<<d>>, Num(n), Num(n), 1)
         IN  /\ bufs = o.heap
             /\ arrays = {1}
             /\ mats = <<o.value>>
             /\ made = <<[call |-> "Matrix", m |-> Num(n), n |-> Num(n), data |-> 1]>>
             /\ last = [call |-> "Matrix", m |-> Num(n), n |-> Num(n), data |-> 1,
                        status |-> "ok", result |-> 1]

\* A.determinant(), A.inverse(), A.multiply(A.inverse())
LUNext ==
    \/ Determinant(1)
    \/ Len(mats) = 1 /\ Inverse(1)
    \/ \E b \in 2..Len(mats) : Len(mats) = 2 /\ Multiply(1, b)

SpecLU == LUInit /\ [][LUNext]_vars

----------------------------------------------------------------------------
(* Matrices built, combined and written by a caller *)

MaxMats == 3
MaxWrites == 1

\* the array the caller starts with
ArrayContents ==
    {<<Num(1), Num(2), Num(3), Num(4)>>,
     <<Num(3), Num(0), Num(2), Num(2), Num(0), Num(-2), Num(0), Num(1), Num(1)>>}

\* what the caller passes as m and n
Dimensions == {Num(2), Num(3)}

\* what the caller passes as row and col, and as index into its own array
Indices == {Num(0), Num(1)}
ArrayIndices == {0}

Scalars == {Num(2)}
Stored == {Num(7)}

\* the caller holds one array; no Matrix exists
MatrixInit ==
    /\ NoDuals
    /\ NoPerceptron
    /\ props = {}
    /\ \E c \in ArrayContents : bufs = <<c>>
    /\ arrays = {1}
    /\ mats = <<>>
    /\ made = <<>>
    /\ writes = 0
    /\ last = [call |-> "none"]

\* the buffers the caller can pass as dataArray: its arrays and every A.data
Passable == arrays \cup {mats[i].data : i \in 1..Len(mats)}

MatrixNext ==
    \/ /\ Len(mats) < MaxMats
       /\ \E m, n \in Dimensions : \E d \in {NoData} \cup Passable : NewMatrix(m, n, d)
    \/ Len(mats) < MaxMats /\ \E a, b \in 1..Len(mats) : Add(a, b)
    \/ Len(mats) < MaxMats /\ \E a \in 1..Len(mats), k \in Scalars : Scalar(a, k)
    \/ Len(mats) < MaxMats /\ \E a, b \in 1..Len(mats) : Multiply(a, b)
    \/ Len(mats) < MaxMats /\ \E a \in 1..Len(mats) : Transpose(a)
    \/ Len(mats) < MaxMats /\ \E a \in 1..Len(mats) : Inverse(a)
    \/ \E a \in 1..Len(mats) : Determinant(a)
    \/ /\ writes < MaxWrites
       /\ \E a \in 1..Len(mats) : \E row, col \in Indices, v \in Stored :
              IndexSet(a, row, col, v)
    \/ /\ writes < MaxWrites
       /\ \E b \in arrays : \E i \in ArrayIndices, v \in Stored : ArrayWrite(b, i, v)

SpecMatrix == MatrixInit /\ [][MatrixNext]_vars

----------------------------------------------------------------------------
(* The constructor on every kind of argument *)

MaxBuilt == 2

\* the array the caller starts with: also an empty one, and ones too short
\* for any matrix but the smallest
ConstructArrays ==
    ArrayContents \cup {<<>>, <<Num(5)>>, <<Num(1), Num(2)>>}

\* what the caller passes as m and n: negative, zero, fractional, NaN and
\* Infinity among them
AnyDimensions == {Num(-1), Num(0), Num(1), Num(2), Num(3), <<3, 2>>, NaN, <<1, 0>>}

ConstructInit ==
    /\ NoDuals
    /\ NoPerceptron
    /\ props = {}
    /\ \E c \in ConstructArrays : bufs = <<c>>
    /\ arrays = {1}
    /\ mats = <<>>
    /\ made = <<>>
    /\ writes = 0
    /\ last = [call |-> "none"]

ConstructNext ==
    /\ Len(mats) < MaxBuilt
    /\ \E m, n \in AnyDimensions : \E d \in {NoData} \cup Passable : NewMatrix(m, n, d)

SpecConstruct == ConstructInit /\ [][ConstructNext]_vars

----------------------------------------------------------------------------
(* Sums, products and transposes of given matrices *)

\* every matrix of the given shapes <<m, n>> with entries among the given numbers
Shaped(shapes, entries) ==
    UNION {{[m |-> sh[1], n |-> sh[2], d |-> d] : d \in [1..(sh[1] * sh[2]) -> entries]}
           : sh \in shapes}

\* A = Matrix(x.m, x.n, x.d) built from the caller's array x.d
OneMatrix(x) ==
    LET o == Matrix(<<x.d>>, Num(x.m), Num(x.n), 1)
    IN  /\ bufs = o.heap
        /\ arrays = {1}
        /\ mats = <<o.value>>
        /\ made = <<[call |-> "Matrix", m |-> Num(x.m), n |-> Num(x.n), data |-> 1]>>
        /\ last = [call |-> "Matrix", m |-> Num(x.m), n |-> Num(x.n), data |-> 1,
                   status |-> "ok", result |-> 1]

\* A and B built from the caller's arrays x.d and y.d
TwoMatrices(x, y) ==
    LET o1 == Matrix(<<x.d, y.d>>, Num(x.m), Num(x.n), 1)
        o2 == Matrix(o1.heap, Num(y.m), Num(y.n), 2)
    IN  /\ bufs = o2.heap
        /\ arrays = {1, 2}
        /\ mats = <<o1.value, o2.value>>
        /\ made = <<[call |-> "Matrix", m |-> Num(x.m), n |-> Num(x.n), data |-> 1],
                    [call |-> "Matrix", m |-> Num(y.m), n |-> Num(y.n), data |-> 2]>>
        /\ last = [call |-> "Matrix", m |-> Num(y.m), n |-> Num(y.n), data |-> 2,
                   status |-> "ok", result |-> 2]

AddInputs == Shaped({<<1, 2>>, <<2, 1>>, <<2, 2>>}, {Num(-1), Num(0), <<1, 2>>})

AddInit ==
    /\ NoDuals
    /\ NoPerceptron
    /\ props = {}
    /\ writes = 0
    /\ \E x, y \in AddInputs : TwoMatrices(x, y)

\* A.add(B), B.scalar(-1), A.add(B).add(B.scalar(-1))
AddNext ==
    \/ Len(mats) = 2 /\ Add(1, 2)
    \/ Len(mats) = 3 /\ \E k \in {Num(-1)} : Scalar(2, k)
    \/ Len(mats) = 4 /\ Add(3, 4)

SpecAdd == AddInit /\ [][AddNext]_vars

\* the matrices returned by the call named c
Made(c) == {j \in 1..Len(made) : made[j].call = c}

MultiplyInputs ==
    Shaped({<<1, 2>>, <<2, 1>>, <<2, 2>>, <<1, 3>>, <<3, 1>>}, {Num(-1), Num(0), <<1, 2>>})

MultiplyInit ==
    /\ NoDuals
    /\ NoPerceptron
    /\ props = {}
    /\ writes = 0
    /\ \E x, y \in MultiplyInputs : TwoMatrices(x, y)

\* A.multiply(B), Matrix.identity(size), Matrix.identity(size).multiply(A)
MultiplyNext ==
    \/ Made("multiply") = {} /\ Made("identity") = {} /\ Multiply(1, 2)
    \/ Made("identity") = {} /\ \E size \in {1, 2, 3} : Identity(size)
    \/ \E i \in Made("identity") :
           /\ \A j \in Made("multiply") : made[j].this # i
           /\ Multiply(i, 1)

SpecMultiply == MultiplyInit /\ [][MultiplyNext]_vars

TransposeInputs ==
    Shaped({<<1, 1>>, <<1, 3>>, <<2, 2>>, <<2, 3>>, <<3, 2>>}, {Num(-1), Num(0), <<1, 2>>})

TransposeInit ==
    /\ NoDuals
    /\ NoPerceptron
    /\ props = {}
    /\ writes = 0
    /\ \E x \in TransposeInputs : OneMatrix(x)

\* A.transpose(), A.transpose().transpose()
TransposeNext ==
    \/ Len(mats) = 1 /\ Transpose(1)
    \/ Len(mats) = 2 /\ Transpose(2)

SpecTranspose == TransposeInit /\ [][TransposeNext]_vars

----------------------------------------------------------------------------
(* Stores through the two-level index on a given matrix *)

MaxStores == 2

IndexInputs == Shaped({<<1, 2>>, <<2, 1>>, <<2, 2>>, <<2, 3>>}, {Num(0), Num(1)})

\* what the caller uses as row and col: negative, fractional and too large
\* among them
AnyIndices == {Num(-1), Num(0), <<1, 2>>, Num(1), <<3, 2>>, Num(2), Num(3)}

StoredValues == {Num(7), Num(9)}

IndexInit ==
    /\ NoDuals
    /\ NoPerceptron
    /\ props = {}
    /\ writes = 0
    /\ \E x \in IndexInputs : OneMatrix(x)

\* A[row][col] = v and A[row] = v
IndexNext ==
    /\ writes < MaxStores
    /\ \/ \E row, col \in AnyIndices, v \in StoredValues : IndexSet(1, row, col, v)
       \/ \E row \in AnyIndices, v \in StoredValues : RowSet(1, row, v)

SpecIndex == IndexInit /\ [][IndexNext]_vars

----------------------------------------------------------------------------
(* Claims about determinant() and inverse() *)

\* row 0 and column col (from 0) of the n x n buffer d removed
Minor(d, n, col) ==
    [p \in 1..((n - 1) * (n - 1)) |->
        LET i == RowOf(p, n - 1) + 1
            j == ColOf(p, n - 1)
        IN  At(d, n, i, IF j < col THEN j ELSE j + 1)]

\* the determinant by cofactor expansion along the first row
RECURSIVE Laplace(_, _)
RECURSIVE LaplaceFrom(_, _, _)
Laplace(d, n) == IF n = 1 THEN d[1] ELSE LaplaceFrom(d, n, 0)

LaplaceFrom(d, n, col) ==
    IF col >= n THEN Zero
    ELSE NAdd(NMul(NMul(IF col % 2 = 0 THEN One ELSE Num(-1), At(d, n, 0, col)),
                   Laplace(Minor(d, n, col), n - 1)),
              LaplaceFrom(d, n, col + 1))

IdentityData(n) == [p \in 1..(n * n) |-> IF RowOf(p, n) = ColOf(p, n) THEN One ELSE Zero]

\* Matrix j was returned by A.multiply(A.inverse()) for Matrix a
IsTimesInverse(j, a) ==
    /\ made[j].call = "multiply" /\ made[j].this = a
    /\ made[made[j].arg].call = "inverse" /\ made[made[j].arg].this = a

\* C1: whenever A.inverse() returns, A.multiply(A.inverse()) is the identity
\* (in exact arithmetic).
C1_TimesInverseIsIdentity ==
    \A j \in 1..Len(mats) : \A a \in 1..Len(mats) :
        IsTimesInverse(j, a) =>
            /\ mats[j].m = mats[a].n /\ mats[j].n = mats[a].n
            /\ DataOf(j) = IdentityData(mats[a].n)

\* a pivot below 1e-10 is met while determinant() eliminates
SmallPivotMet(a) == mats[a].n >= 3 /\ DetLU(DataOf(a), mats[a].n, 0, 0).small

\* C5: when no pivot met during elimination is below 1e-10, determinant()
\* returns the determinant of the matrix, the value of its cofactor expansion
\* (for n >= 3 as the signed product of the diagonal of the LU buffer).
C5_DeterminantIsLaplace ==
    (last.call = "determinant" /\ ~SmallPivotMet(last.this))
        => /\ last.status = "ok"
           /\ last.value = Laplace(DataOf(last.this), mats[last.this].n)
           /\ DataOf(last.this) = <<Num(1), Num(2), Num(3), Num(4)>> => last.value = Num(-2)
           /\ DataOf(last.this) = <<Num(6), Num(1), Num(1), Num(4), Num(-2), Num(5),
                                    Num(2), Num(8), Num(7)>> => last.value = Num(-306)

\* determinant() of a matrix of size 3 or more whose elimination swapped rows
\* and met no small pivot
C5_Witness ==
    /\ last.call = "determinant" /\ mats[last.this].n >= 3
    /\ ~SmallPivotMet(last.this)
    /\ DetLU(DataOf(last.this), mats[last.this].n, 0, 0).swaps = 1
    /\ last.value = Num(-306)

IsSingular(a) == Laplace(DataOf(a), mats[a].n) = Zero

PermutedUnit(n, perm, col) == [p \in 1..n |-> IF perm[p] = col THEN One ELSE Zero]

\* C15: when inverse() of a matrix of size 3 or more gets past the
\* elimination, the right-hand side it solves for column k is P * e_k, the
\* vector with its 1 at the index i where perm[i] = k, whatever the row
\* exchanges were.
C15_RightHandSideIsPermutedUnit ==
    (last.call = "inverse" /\ last.status = "ok" /\ mats[last.this].n >= 3) =>
        LET n == mats[last.this].n
            r == InvLU(DataOf(last.this), n, 0, [p \in 1..n |-> p - 1])
        IN  \A col \in 0..(n - 1) :
                RightHandSide(n, r.perm, col) = PermutedUnit(n, r.perm, col)

----------------------------------------------------------------------------
(* Claims about buffers and the constructor *)

\* no Matrix holds a buffer that another Matrix or the caller holds
Unshared ==
    \A i \in 1..Len(mats) :
        /\ mats[i].data \notin arrays
        /\ \A j \in 1..Len(mats) : i # j => mats[i].data # mats[j].data

\* the calls that compute from matrices, and the constructor
Computing == {"add", "scalar", "multiply", "transpose", "determinant", "inverse", "Matrix"}

\* a computing call leaves every Matrix and every buffer there was as it was
OperandsKept ==
    last'.call \in Computing =>
        /\ \A i \in 1..Len(mats) :
               /\ Len(mats') >= i /\ mats'[i] = mats[i]
               /\ bufs'[mats'[i].data] = bufs[mats[i].data]
        /\ \A b \in arrays : bufs'[b] = bufs[b]

\* an indexed write changes no element of another Matrix or of the caller's
\* array, and a store into the caller's array changes no element of a Matrix
WritesKept ==
    /\ last'.call = "set" =>
          /\ \A i \in 1..Len(mats) : i # last'.this => bufs'[mats[i].data] = bufs[mats[i].data]
          /\ \A b \in arrays : bufs'[b] = bufs[b]
          /\ mats' = mats
    /\ last'.call = "store" =>
          /\ \A i \in 1..Len(mats) : bufs'[mats[i].data] = bufs[mats[i].data]
          /\ mats' = mats

\* C7: add, scalar, multiply, transpose, determinant and inverse (and the
\* constructor) leave the data and dimensions of every existing Matrix and the
\* caller's array unchanged; no Matrix shares its buffer with another Matrix
\* or with the caller's array; so an indexed write to one Matrix changes no
\* element of another.
C7_OperandsKeptBuffersUnshared == []Unshared /\ [][OperandsKept /\ WritesKept]_vars

\* an element of a Matrix returned by add or scalar has been written, and the
\* receiver of that call, built from the caller's array, still equals the array
C7_Witness ==
    /\ last.call = "set" /\ last.status = "ok"
    /\ made[last.this].call \in {"add", "scalar"}
    /\ DataOf(last.this)[1] = Num(7)
    /\ made[made[last.this].this].call = "Matrix"
    /\ made[made[last.this].this].data \in arrays
    /\ DataOf(made[last.this].this) = bufs[made[made[last.this].this].data]
    /\ DataOf(made[last.this].this)[1] # Num(7)

\* x is a positive integer
PositiveInteger(x) == IsFinite(x) /\ x[2] = 1 /\ x[1] > 0

\* C10: Matrix(m, n, data) throws InvalidDimension exactly when m or n is not
\* a positive integer; otherwise throws DataLengthMismatch exactly when data is
\* supplied and its length is not m * n; otherwise returns a Matrix of m by n
\* whose buffer has m * n elements, all 0 without data, else those of data.
C10_ConstructorOutcome ==
    last.call = "Matrix" =>
        IF ~(PositiveInteger(last.m) /\ PositiveInteger(last.n))
        THEN last.status = "throw" /\ last.error = "InvalidDimension"
        ELSE IF last.data # NoData /\ Len(bufs[last.data]) # last.m[1] * last.n[1]
        THEN last.status = "throw" /\ last.error = "DataLengthMismatch"
        ELSE /\ last.status = "ok"
             /\ mats[last.result].m = last.m[1] /\ mats[last.result].n = last.n[1]
             /\ Len(DataOf(last.result)) = last.m[1] * last.n[1]
             /\ \A p \in 1..Len(DataOf(last.result)) :
                    DataOf(last.result)[p] =
                        IF last.data = NoData THEN Zero ELSE bufs[last.data][p]

\* a Matrix built from the caller's array, after a zero-filled one that is
\* not square
C10_Witness ==
    /\ last.call = "Matrix" /\ last.status = "ok" /\ last.result = 2
    /\ last.data \in arrays /\ last.m # last.n
    /\ made[1].data = NoData /\ mats[1].m # mats[1].n

----------------------------------------------------------------------------
(* Claims about add, multiply and transpose *)

SameShape(a, b) == mats[a].m = mats[b].m /\ mats[a].n = mats[b].n

SameMatrix(a, b) == SameShape(a, b) /\ DataOf(a) = DataOf(b)

\* Matrix j is (A + B) + (B * -1) for Matrix a as A
IsAddRoundTrip(j, a) ==
    /\ made[j].call = "add"
    /\ made[made[j].this].call = "add" /\ made[made[j].this].this = a
    /\ made[made[j].arg].call = "scalar" /\ made[made[j].arg].arg = Num(-1)
    /\ made[made[j].arg].this = made[made[j].this].arg

\* C11: A.add(B) throws DimensionMismatch exactly when the shapes of A and B
\* differ; otherwise the result has the shape of A and element i is
\* A.data[i] + B.data[i]; and A.add(B).add(B.scalar(-1)) has the shape and
\* data of A (in exact arithmetic).
C11_AddElementwise ==
    /\ last.call = "add" =>
          IF SameShape(last.this, last.arg) THEN last.status = "ok"
          ELSE last.status = "throw" /\ last.error = "DimensionMismatch"
    /\ \A j \in 1..Len(mats) :
          made[j].call = "add" =>
              /\ SameShape(j, made[j].this)
              /\ Len(DataOf(j)) = mats[j].m * mats[j].n
              /\ \A p \in 1..Len(DataOf(j)) :
                     DataOf(j)[p] = NAdd(DataOf(made[j].this)[p], DataOf(made[j].arg)[p])
    /\ \A j \in 1..Len(mats) : \A a \in 1..Len(mats) :
          IsAddRoundTrip(j, a) => SameMatrix(j, a)

\* the round trip is complete for matrices that are not square and a B that
\* is not zero
C11_Witness ==
    /\ Len(mats) = 5 /\ IsAddRoundTrip(5, 1)
    /\ mats[1].m # mats[1].n
    /\ DataOf(3) # DataOf(1)
    /\ \E p \in 1..Len(DataOf(2)) : ~IsInteger(DataOf(2)[p])

\* f[1] + ... + f[k]
RECURSIVE SumTo(_, _)
SumTo(f, k) == IF k = 0 THEN Zero ELSE NAdd(SumTo(f, k - 1), f[k])

\* element (i, j), both from 0, of the product of Matrix a and Matrix b
ProductAt(a, b, i, j) ==
    SumTo([k \in 1..mats[a].n |->
              NMul(At(DataOf(a), mats[a].n, i, k - 1), At(DataOf(b), mats[b].n, k - 1, j))],
          mats[a].n)

\* C12: A.multiply(B) throws DimensionMismatch exactly when A.cols # B.rows;
\* otherwise the result is A.rows by B.cols and its element (i, j) is the sum
\* over k of A[i][k] * B[k][j]; and Matrix.identity(n).multiply(A) has the
\* shape and data of A for A with n rows.
C12_MultiplyRowsByColumns ==
    /\ last.call = "multiply" =>
          IF mats[last.this].n = mats[last.arg].m THEN last.status = "ok"
          ELSE last.status = "throw" /\ last.error = "DimensionMismatch"
    /\ \A r \in Made("multiply") :
          /\ mats[r].m = mats[made[r].this].m /\ mats[r].n = mats[made[r].arg].n
          /\ Len(DataOf(r)) = mats[r].m * mats[r].n
          /\ \A i \in 0..(mats[r].m - 1) : \A j \in 0..(mats[r].n - 1) :
                 At(DataOf(r), mats[r].n, i, j) = ProductAt(made[r].this, made[r].arg, i, j)
          /\ made[made[r].this].call = "identity" => SameMatrix(r, made[r].arg)

\* identity(2) times a 2x2 matrix that is not symmetric, after the product
\* of a 2x1 by a 1x2 matrix
C12_Witness ==
    /\ Len(mats) = 5
    /\ made[3].call = "multiply" /\ mats[1].n = 1 /\ mats[3].m = 2 /\ mats[3].n = 2
    /\ made[4].call = "identity" /\ made[5].call = "multiply" /\ made[5].this = 4
    /\ DataOf(3)[2] # DataOf(3)[3]

\* C13: A.transpose() of an m by n matrix A is n by m, its element (j, i) is
\* A's element (i, j), and A.transpose().transpose() has the shape and data
\* of A.
C13_TransposeSwaps ==
    \A t \in Made("transpose") :
        LET a == made[t].this
        IN  /\ mats[t].m = mats[a].n /\ mats[t].n = mats[a].m
            /\ Len(DataOf(t)) = mats[t].m * mats[t].n
            /\ \A i \in 0..(mats[a].m - 1) : \A j \in 0..(mats[a].n - 1) :
                   At(DataOf(t), mats[t].n, j, i) = At(DataOf(a), mats[a].n, i, j)
            /\ made[a].call = "transpose" => SameMatrix(t, made[a].this)

\* a 2x3 matrix with six different places transposed twice
C13_Witness ==
    /\ Len(mats) = 3 /\ made[3].call = "transpose" /\ made[3].this = 2
    /\ mats[1].m = 2 /\ mats[1].n = 3
    /\ DataOf(2) # DataOf(1)
    /\ DataOf(1)[2] # DataOf(1)[4]

\* C14: a store A[r][c] = v changes the buffer only when r is an integer of
\* 0..rows-1 and c an integer of 0..cols-1, and then exactly element
\* r * cols + c; a store at any other index and a whole-row assignment
\* A[r] = v change no element and add no storage, and data.length stays
\* rows * cols.
C14_StoresOnlyAtIntegerPlaces ==
    [][writes' # writes =>
          LET this == mats[last'.this]
              r == last'.row
          IN  /\ Len(bufs'[this.data]) = this.m * this.n
              /\ props' = props
              /\ IF /\ last'.call = "set"
                    /\ IsInteger(r) /\ IndexValid(r, this.m)
                    /\ IsInteger(last'.col) /\ IndexValid(last'.col, this.n)
                 THEN bufs' = [bufs EXCEPT ![this.data][r[1] * this.n + last'.col[1] + 1] =
                                               last'.value]
                 ELSE bufs' = bufs]_vars

----------------------------------------------------------------------------
(* What the gradients should be: the chain rule over the graph *)

ParentSet(ns, c) == {ns[c].parents[k] : k \in 1..Len(ns[c].parents)}

RECURSIVE ReachFrom(_, _, _)
ReachFrom(ns, frontier, seen) ==
    IF frontier = {} THEN seen
    ELSE LET new == (UNION {ParentSet(ns, c) : c \in frontier}) \ seen
         IN  ReachFrom(ns, new, seen \cup new)

\* the nodes reachable from r over parents edges, r included
Reach(ns, r) == ReachFrom(ns, {r}, {r})

\* the nodes that list v among their parents
Consumers(ns, v) == {c \in 1..Len(ns) : v \in ParentSet(ns, c)}

\* the partial derivative of node c's value with respect to its k-th operand
LocalPartial(ns, c, k) ==
    LET x == ns[ns[c].parents[1]].real
        o == ns[ns[c].parents[2]].real
    IN  CASE ns[c].op = "add" -> One
          [] ns[c].op = "sub" -> IF k = 1 THEN One ELSE Num(-1)
          [] ns[c].op = "mul" -> IF k = 1 THEN o ELSE x
          [] ns[c].op = "div" -> IF k = 1 THEN NDiv(One, o)
                                 ELSE NDiv(NNeg(x), NMul(o, o))

\* d r.real / d v.real: the sum over all parent-edge paths from r to v of the
\* product of the local partials along the path.  A node's parents were
\* created before it, so its consumers have larger ids.
RECURSIVE Deriv(_, _, _)
RECURSIVE DerivVia(_, _, _, _)
Deriv(ns, r, v) ==
    IF v = r THEN One
    ELSE IF v > r THEN Zero
    ELSE DerivVia(ns, r, v, v + 1)

DerivVia(ns, r, v, c) ==
    IF c > r THEN Zero
    ELSE LET via(k) == IF k <= Len(ns[c].parents) /\ ns[c].parents[k] = v
                       THEN NMul(LocalPartial(ns, c, k), Deriv(ns, r, c))
                       ELSE Zero
         IN  NAdd(NAdd(via(1), via(2)), DerivVia(ns, r, v, c + 1))

NoDiv(ns) == \A i \in 1..Len(ns) : ns[i].op # "div"

NoDup(s) == \A p, q \in 1..Len(s) : s[p] = s[q] => p = q

Range(s) == {s[p] : p \in 1..Len(s)}

----------------------------------------------------------------------------
(* Claims about DualNumber *)

\* C2: in a graph built with add, sub and mul whose grads were all 0, once
\* root.backprop() has returned the grad of every node is the exact partial
\* derivative of root.real with respect to that node (the first backprop()
\* of a run starts from grads that are all 0).
C2_ExactGradient ==
    (pc = "idle" /\ passes = 1 /\ NoDiv(nodes))
        => \A i \in 1..Len(nodes) : nodes[i].grad = Deriv(nodes, root, i)

\* C3: a node's backward closure is invoked only after the closures of all
\* its consumers reachable from the root have been invoked.
C3_ConsumersFirst ==
    \A p \in 1..Len(calls) :
        \A c \in Consumers(nodes, calls[p]) \cap Reach(nodes, root) :
            \E q \in 1..(p - 1) : calls[q] = c

\* the non-leaf nodes reachable from the root of the running or last backprop()
ReachableClosures == {c \in Reach(nodes, root) : HasBackward(nodes, c)}

C4_Once ==
    /\ NoDup(calls)
    /\ root # 0 => Range(calls) \subseteq ReachableClosures
    /\ (root # 0 /\ pc = "idle") => Range(calls) = ReachableClosures

\* C4: backprop() terminates, and when it returns it has invoked the closure
\* of every non-leaf node reachable from the root exactly once and no closure
\* of an unreachable node.
C4_TerminatesEachOnce == [](C4_Once) /\ ((pc = "loop") ~> (pc = "idle"))

\* a returned backprop() that met a closure node twice: it is twice in one
\* parents list and is reachable through two different consumers
C4_Witness ==
    /\ pc = "idle" /\ root # 0
    /\ \E v \in Range(calls) :
         /\ \E c \in Range(calls) : nodes[c].parents = <<v, v>>
         /\ Cardinality(Consumers(nodes, v) \cap Range(calls)) >= 2

\* the step is the invocation of a backward closure; InvokedNode is its node
ClosureStep == Len(calls') = Len(calls) + 1
InvokedNode == calls'[Len(calls')]

\* the step is the first statement of backprop() on node i
SeedStep(i) == pc = "idle" /\ pc' = "loop" /\ root' = i

\* C8 as claimed: a node's grad changes only by the backward closure of one of
\* its consumers (never its own closure); no operation of the scalar itself,
\* backprop() included, assigns to a grad.
C8_OnlyConsumerClosures ==
    [][\A i \in 1..Len(nodes) :
          nodes'[i].grad # nodes[i].grad
              => (ClosureStep /\ InvokedNode # i /\ i \in ParentSet(nodes, InvokedNode))
      ]_vars

\* C8, amended: a node's grad changes only by the backward closure of one of
\* its consumers, or by backprop() called on that very node assigning 1 to it.
C8_ConsumerClosuresOrSeed ==
    [][\A i \in 1..Len(nodes) :
          nodes'[i].grad # nodes[i].grad
              => \/ ClosureStep /\ InvokedNode # i /\ i \in ParentSet(nodes, InvokedNode)
                 \/ SeedStep(i) /\ nodes'[i].grad = One
      ]_vars

\* after two backprop() calls a node other than the last root holds what the
\* closures of both passes accumulated
C8_Witness ==
    /\ pc = "idle" /\ passes = 2
    /\ \E i \in 1..Len(nodes) : i # root /\ nodes[i].grad \notin {Zero, One}

\* the value x <kind> o of the operands' real values
Combined(kind, a, b) ==
    CASE kind = "add" -> NAdd(a, b)
      [] kind = "sub" -> NSub(a, b)
      [] kind = "mul" -> NMul(a, b)
      [] kind = "div" -> NDiv(a, b)

\* what one invocation of node c's closure adds to the grad of node i: for
\* each operand position that holds i, local partial times c's grad
Accumulated(ns, c, i) ==
    LET plus(g, k) == IF ns[c].parents[k] = i
                      THEN NAdd(g, NMul(LocalPartial(ns, c, k), ns[c].grad))
                      ELSE g
    IN  plus(plus(ns[i].grad, 1), 2)

C9_OperatorStep ==
    (last' # last /\ last'.call \in Ops) =>
        LET x   == last'.this
            arg == last'.arg
            res == last'.result
            o   == IF arg.isDual THEN arg.id ELSE Len(nodes) + 1
        IN  /\ res = Len(nodes') /\ res > Len(nodes) /\ res > o
            /\ \A i \in 1..Len(nodes) : nodes'[i] = nodes[i]
            /\ ~arg.isDual => nodes'[o] = [real |-> Num(arg.val), dual |-> Zero,
                                           grad |-> Zero, parents |-> <<>>, op |-> "leaf"]
            /\ nodes'[res].real = Combined(last'.call, nodes'[x].real, nodes'[o].real)
            /\ nodes'[res].parents = <<x, o>>
            /\ HasBackward(nodes', res)

C9_ClosureStep ==
    ClosureStep =>
        \A i \in 1..Len(nodes) :
            nodes'[i] = [nodes[i] EXCEPT !.grad = Accumulated(nodes, InvokedNode, i)]

\* C9: add/sub/mul/div return a new node holding the combined real value with
\* parents [x, o], a raw number being wrapped in a fresh leaf; the operands are
\* left as they were; the installed closure adds local partial times the
\* result's grad to each parent's grad, twice when x and o are the same node.
C9_OperatorsAndClosures == [][C9_OperatorStep /\ C9_ClosureStep]_vars

\* a closure of x.mul(x) has run, and the last call divided by a raw number
C9_Witness ==
    /\ last.call = "div" /\ ~last.arg.isDual
    /\ \E c \in Range(calls) : nodes[c].op = "mul" /\ nodes[c].parents[1] = nodes[c].parents[2]

----------------------------------------------------------------------------
(* Perceptron: src/Perceptron.js, lines 122-205 *)

\* the activation functions a caller sets: x => x (line 131, the default) and
\* x => x * 2 (server.spec.js line 189)
Activate(fn, x) == IF fn = "identity" THEN x ELSE NMul(x, Num(2))

\* element i (from 0) of an array of numbers as arithmetic sees it: undefined
\* beyond its length, which is NaN in a sum or a product
Elem(s, i) == IF i < Len(s) THEN s[i + 1] ELSE NaN

\* new Perceptron(), lines 127-131, with the weights Math.random() gave
Perceptron(w) ==
    [inputs |-> <<>>, outputs |-> <<>>, weights |-> w,
     gradients |-> [i \in 1..Len(w) |-> Zero], activationFn |-> "identity"]

\* lines 165-168: sum += inputs[i] * weights[i] for i = from .. inputs.length-1
RECURSIVE WeightedSum(_, _, _, _)
WeightedSum(sum, inputs, weights, i) ==
    IF i >= Len(inputs) THEN sum
    ELSE WeightedSum(NAdd(sum, NMul(inputs[i + 1], Elem(weights, i))), inputs, weights, i + 1)

\* forward(x1, x2), lines 161-172
PerceptronForward(this, x1, x2) ==
    LET inputs == [i \in 1..(IF Len(this.inputs) > 3 THEN Len(this.inputs) ELSE 3) |->
                      IF i = 1 THEN x1 ELSE IF i = 2 THEN x2 ELSE IF i = 3 THEN One
                      ELSE this.inputs[i]]
        output == Activate(this.activationFn, WeightedSum(Zero, inputs, this.weights, 0))
    IN  [this |-> [this EXCEPT !.inputs = inputs, !.outputs = <<output>>], value |-> output]

\* lines 142-148: newGradients = weights.map((_, i) => dLoss_dYPred * 1 * inputs[i])
NewGradients(this, yTarget) ==
    LET dLoss_dYPred == NSub(Elem(this.outputs, 0), yTarget)
    IN  [i \in 1..Len(this.weights) |->
            NMul(NMul(dLoss_dYPred, One), Elem(this.inputs, i - 1))]

\* backward() storing the new gradients where it should add them
PerceptronBackwardOverwriting(this, yTarget) ==
    [this EXCEPT !.gradients = NewGradients(this, yTarget)]

\* backward(yTarget), lines 141-157: gradients[i] += newGradients[i]
PerceptronBackward(this, yTarget) ==
    LET newGradients == NewGradients(this, yTarget)
    IN  [this EXCEPT !.gradients =
            [i \in 1..Len(this.weights) |-> NAdd(Elem(this.gradients, i - 1), newGradients[i])]]

\* update(learningRate), lines 184-189
PerceptronUpdate(this, learningRate) ==
    [this EXCEPT !.weights = [i \in 1..Len(this.weights) |->
                                 NSub(this.weights[i], NMul(learningRate, this.gradients[i]))],
                 !.gradients = [i \in 1..Len(this.weights) |-> Zero]]

\* weights(...args) with at least one and at most weights.length arguments,
\* lines 198-201
PerceptronWeights(this, args) ==
    [this EXCEPT !.weights = [i \in 1..Len(this.weights) |->
                                 IF i <= Len(args) THEN args[i] ELSE this.weights[i]]]

\* activation(fn), lines 135-138
PerceptronActivation(this, fn) == [this EXCEPT !.activationFn = fn]

----------------------------------------------------------------------------
(* A caller training one Perceptron *)

MaxSamples == 2
MaxUpdates == 2
MaxSettings == 1

\* what Math.random() * 2 - 1 gives
DrawnWeights == {Num(-1), <<1, 2>>}

Features == {Num(0), Num(1), Num(2)}
Targets == {Num(0), Num(1)}
LearningRates == {<<1, 2>>, <<1, 10>>}
Activations == {"identity", "double"}

\* server.spec.js line 160, and a call that sets the first weight only
WeightArgs == {<<(<<1, 2>>), (<<1, 2>>), (<<1, 10>>)>>, <<Zero>>}

\* no call since the last update(): pending is the forward() call no
\* backward() has followed yet, samples the forward()/backward() pairs,
\* paired whether every backward() followed a forward() of its own; backs,
\* updates and settings count the calls of backward(), of update() and of
\* weights() and activation() so far
NothingTrained(backs, updates, settings) ==
    [pending |-> <<>>, samples |-> <<>>, paired |-> TRUE,
     backs |-> backs, updates |-> updates, settings |-> settings]

PerceptronInit ==
    /\ NoDuals
    /\ NoMatrices
    /\ \E w \in [1..3 -> DrawnWeights] : perceptron = Perceptron(w)
    /\ trained = NothingTrained(0, 0, 0)
    /\ last = [call |-> "Perceptron"]

\* p.forward(x1, x2)
CallForward(x1, x2) ==
    /\ UNCHANGED <<dualVars, matrixVars>>
    /\ \E o \in {PerceptronForward(perceptron, x1, x2)} :
           /\ perceptron' = o.this
           /\ last' = [call |-> "forward", x1 |-> x1, x2 |-> x2, value |-> o.value]
           /\ trained' = [trained EXCEPT !.pending =
                             <<[x1 |-> x1, x2 |-> x2, yPred |-> o.value,
                                fn |-> perceptron.activationFn]>>]

\* p.backward(yTarget)
CallBackward(yTarget) ==
    /\ UNCHANGED <<dualVars, matrixVars>>
    /\ perceptron' = PerceptronBackward(perceptron, yTarget)
    /\ last' = [call |-> "backward", yTarget |-> yTarget]
    /\ trained' = [trained EXCEPT
                      !.pending = <<>>,
                      !.samples = IF trained.pending = <<>> THEN @
                                  ELSE Append(@, trained.pending[1] @@ [yTarget |-> yTarget]),
                      !.paired = @ /\ trained.pending # <<>>,
                      !.backs = @ + 1]

\* p.update(learningRate)
CallUpdate(learningRate) ==
    /\ UNCHANGED <<dualVars, matrixVars>>
    /\ perceptron' = PerceptronUpdate(perceptron, learningRate)
    /\ last' = [call |-> "update", learningRate |-> learningRate,
                before |-> perceptron.weights, samples |-> trained.samples,
                paired |-> trained.paired]
    /\ trained' = NothingTrained(trained.backs, trained.updates + 1, trained.settings)

\* p.weights(...args)
CallWeights(args) ==
    /\ UNCHANGED <<dualVars, matrixVars>>
    /\ perceptron' = PerceptronWeights(perceptron, args)
    /\ trained' = [trained EXCEPT !.settings = @ + 1]
    /\ last' = [call |-> "weights", args |-> args]

\* p.activation(fn)
CallActivation(fn) ==
    /\ UNCHANGED <<dualVars, matrixVars>>
    /\ perceptron' = PerceptronActivation(perceptron, fn)
    /\ trained' = [trained EXCEPT !.settings = @ + 1]
    /\ last' = [call |-> "activation", fn |-> fn]

\* the caller trains in rounds: forward() and backward() in turn, or a
\* backward() with no forward() before it, then update(), once or twice; it
\* sets weights or activation at any point
PerceptronNext ==
    \/ /\ trained.backs < MaxSamples /\ trained.pending = <<>>
       /\ \E x1, x2 \in Features : CallForward(x1, x2)
    \/ trained.backs < MaxSamples /\ \E yTarget \in Targets : CallBackward(yTarget)
    \/ /\ trained.updates < MaxUpdates /\ trained.pending = <<>>
       /\ \E lr \in LearningRates : CallUpdate(lr)
    \/ trained.settings < MaxSettings /\ \E args \in WeightArgs : CallWeights(args)
    \/ trained.settings < MaxSettings /\ \E fn \in Activations : CallActivation(fn)

SpecPerceptron == PerceptronInit /\ [][PerceptronNext]_vars

----------------------------------------------------------------------------
(* Claims about Perceptron *)

\* what one forward()/backward() pair adds to the gradient of weight i (from
\* 1): (yPred - yTarget) * input_i, the third input being 1
Contribution(s, i) ==
    NMul(NSub(s.yPred, s.yTarget), IF i = 1 THEN s.x1 ELSE IF i = 2 THEN s.x2 ELSE One)

\* the contributions of the first k pairs added up
RECURSIVE PairsTotal(_, _, _)
PairsTotal(samples, i, k) ==
    IF k = 0 THEN Zero ELSE NAdd(PairsTotal(samples, i, k - 1), Contribution(samples[k], i))

\* update() follows forward()/backward() pairs made with the identity activation
AfterPairs ==
    /\ last.call = "update" /\ last.paired
    /\ \A k \in 1..Len(last.samples) : last.samples[k].fn = "identity"

\* C16: with the identity activation, after forward()/backward() pairs an
\* update(lr) leaves each weight at its value before, less lr times the sum
\* over the pairs of (yPred - yTarget) * input_i with input_3 = 1, and leaves
\* every gradient 0; so an update() that follows no pair changes no weight.
C16_UpdateSubtractsAccumulated ==
    AfterPairs =>
        /\ Len(perceptron.weights) = 3
        /\ \A i \in 1..3 :
               perceptron.weights[i] =
                   NSub(last.before[i],
                        NMul(last.learningRate,
                             PairsTotal(last.samples, i, Len(last.samples))))
        /\ perceptron.gradients = <<Zero, Zero, Zero>>
        /\ last.samples = <<>> => perceptron.weights = last.before

\* an update() after two pairs that both pull on the first weight, which it
\* moves
C16_Witness ==
    /\ AfterPairs /\ Len(last.samples) = 2
    /\ \A k \in 1..2 : Contribution(last.samples[k], 1) # Zero
    /\ perceptron.weights[1] # last.before[1]

====
